---- MODULE Spec2Model ----
(***************************************************************************)
(* Model of the firehose scrapers: the entry store (db.py) with its two    *)
(* transports, and the three source adapters (american_presidency.py,      *)
(* rev_transcripts.py, truth_social.py) that list, filter, fetch and save. *)
(*                                                                         *)
(* Strings are sequences of one-character strings, so that split(),        *)
(* strip(), rstrip("/"), split("/") and the /documents/(\d+) search are    *)
(* computed and not assumed.  None is the empty tuple <<>> and a returned  *)
(* value v is <<v>>.  Timestamps are integers: the clock counts from 0,    *)
(* and a date parsed from a page lies in the past (negative).              *)
(***************************************************************************)
EXTENDS Integers, Sequences, FiniteSets, Bags, TLC

VARIABLES
    store,        \* the entries relation: a bag of rows
    clock,        \* datetime.now()
    cfg,          \* the arguments of the runs (max_pages, max_docs, ...), fixed
    use_api,      \* EntryDB.use_api of each runner's EntryDB
    adapter,      \* which scraper class each runner runs
    pc,           \* position of each runner in run()
    runsLeft,     \* how many more runs each runner may start
    cat,          \* index of the category being scraped (AmericanPresidency)
    page,         \* number of listing pages visited in scrape_category
    doc_list,     \* the part of the current listing page not yet handled
    documents,    \* the entries collected by scrape_category / scrape_recent
    saveIdx,      \* position of save_documents in its batch
    saved,        \* save_documents' counter
    total_saved,  \* run()'s counter
    outcome,      \* how the last run ended: a count, or an exception
    item,         \* history: the listing item handled last
    savedIds,     \* history: external ids for which insert_entry returned an id
    insLog,       \* history: per runner, the results of its insert_entry calls
    call,         \* history: the last call made directly on an EntryDB
    entry,        \* who started each runner's run: run_* of the orchestrator, or main()
    client,       \* the scraper's httpx.Client: "none", "open" or "closed"
    conn,         \* EntryDB._conn: "none", "open" or "closed"
    fetchLog,     \* history: per runner, the network fetches of its run
    startSize,    \* history: the size of the store when each runner's run began
    running,      \* ScraperOrchestrator.running
    opc,          \* position of the orchestrator
    jobs,         \* the adapter runs the orchestrator has yet to start in this batch
    rounds,       \* how many more batches of due jobs the schedule may hand out
    signalled,    \* history: a shutdown signal was delivered
    started       \* history: the adapter runs the orchestrator started

vars == <<store, clock, cfg, use_api, adapter, pc, runsLeft, cat, page, doc_list,
          documents, saveIdx, saved, total_saved, outcome, item, savedIds, insLog,
          call, entry, client, conn, fetchLog, startSize, running, opc, jobs,
          rounds, signalled, started>>

runVars == <<adapter, pc, runsLeft, cat, page, doc_list, documents, saveIdx, saved,
             total_saved, outcome, item, insLog, entry, client, conn, fetchLog,
             startSize>>

orchVars == <<running, opc, jobs, rounds, signalled, started>>

(***************************************************************************)
(* Bounds of the model.                                                    *)
(***************************************************************************)
MaxClock == 2
MaxRuns == 2
MaxItems == 2
MaxDocs == 2

Procs == {1, 2}

None == <<>>
Some(v) == <<v>>

(***************************************************************************)
(* Text.                                                                   *)
(***************************************************************************)
IsSpace(c) == c \in {" ", "\n"}

SetMin(S) == CHOOSE x \in S : \A y \in S : x <= y
SetMax(S) == CHOOSE x \in S : \A y \in S : y <= x

\* str.strip()
strip(s) ==
    LET keep == {i \in 1..Len(s) : ~IsSpace(s[i])}
    IN  IF keep = {} THEN <<>> ELSE SubSeq(s, SetMin(keep), SetMax(keep))

\* len(text_content.split()): a token starts at every non-space character
\* that is first or follows a space
word_count_of(s) ==
    Cardinality({i \in 1..Len(s) : ~IsSpace(s[i]) /\ (i = 1 \/ IsSpace(s[i-1]))})

character_count_of(s) == Len(s)

RECURSIVE join(_, _)
join(parts, sep) ==
    IF parts = <<>> THEN <<>>
    ELSE IF Len(parts) = 1 THEN parts[1]
    ELSE parts[1] \o sep \o join(Tail(parts), sep)

RECURSIVE stripped_parts(_)
\* the stripped strings of a tag, the empty ones left out (strip=True)
stripped_parts(frags) ==
    IF frags = <<>> THEN <<>>
    ELSE LET t == strip(frags[1].s)
         IN  (IF t = <<>> THEN <<>> ELSE <<t>>) \o stripped_parts(Tail(frags))

\* Tag.get_text(separator=sep, strip=True)
get_text(frags, sep) == join(stripped_parts(frags), sep)

(***************************************************************************)
(* The entry store, db.py.  The entries relation is a bag of rows; the     *)
(* serial id of a row is what the insert returns.                          *)
(***************************************************************************)
Rows(st) == BagToSet(st)

StoredIds(st) == {r.external_id : r \in Rows(st)}

\* the rows stored under an external id
RowsOf(st, eid) == {r \in Rows(st) : r.external_id = eid}

Size(st) == BagCardinality(st)

ConflictNever(st, eid) == FALSE

\* ON CONFLICT (external_id): the unique index on external_id
Conflict(st, eid) == \E r \in Rows(st) : r.external_id = eid

\* the serial primary key
NextId(st) == Size(st) + 1

Row(e, ts, word_count, character_count) ==
    [external_id |-> e.external_id, timestamp |-> ts, source |-> e.source,
     text_content |-> e.text_content, character_count |-> character_count,
     word_count |-> word_count]

insert_via_db_upsert(st, e, word_count, character_count, fail) ==
    LET params == Row(e, e.timestamp, Some(word_count), Some(character_count))
    IN  IF fail
        THEN [store |-> st, ret |-> None, raised |-> TRUE, via |-> "db",
              req |-> params]
        ELSE IF Conflict(st, e.external_id)
        THEN [store |-> SetToBag((Rows(st) \ RowsOf(st, e.external_id))
                                     \cup {params}),
              ret |-> None, raised |-> FALSE, via |-> "db", req |-> params]
        ELSE [store |-> st (+) SetToBag({params}), ret |-> Some(NextId(st)),
              raised |-> FALSE, via |-> "db", req |-> params]

insert_via_db_plain_insert(st, e, word_count, character_count, fail) ==
    LET params == Row(e, e.timestamp, Some(word_count), Some(character_count))
    IN  IF fail \/ Conflict(st, e.external_id)
        THEN [store |-> st, ret |-> None, raised |-> TRUE, via |-> "db",
              req |-> params]
        ELSE [store |-> st (+) SetToBag({params}), ret |-> Some(NextId(st)),
              raised |-> FALSE, via |-> "db", req |-> params]

\* EntryDB._insert_via_db: one INSERT ... ON CONFLICT DO NOTHING RETURNING id,
\* committed; on an error rolled back and re-raised
insert_via_db(st, e, word_count, character_count, fail) ==
    LET params == Row(e, e.timestamp, Some(word_count), Some(character_count))
    IN  IF fail
        THEN [store |-> st, ret |-> None, raised |-> TRUE, via |-> "db",
              req |-> params]
        ELSE IF Conflict(st, e.external_id)
        THEN [store |-> st, ret |-> None, raised |-> FALSE, via |-> "db",
              req |-> params]
        ELSE [store |-> st (+) SetToBag({params}), ret |-> Some(NextId(st)),
              raised |-> FALSE, via |-> "db", req |-> params]

\* datetime.isoformat() and the endpoint's reading of it
isoformat(t) == <<"iso", t>>
from_iso(s) == s[2]

\* The remote write endpoint (not part of the scrapers): answers a failure
\* status, or {duplicate: true}, or stores the entry with the counts it
\* derives from textContent and answers {entry: {id}}.
ApiEndpoint(st, payload, fail) ==
    IF fail
    THEN [store |-> st, ok |-> FALSE, duplicate |-> FALSE, entry_id |-> None]
    ELSE IF Conflict(st, payload.external_id)
    THEN [store |-> st, ok |-> TRUE, duplicate |-> TRUE, entry_id |-> None]
    ELSE [store |-> st (+) SetToBag({Row(payload, from_iso(payload.timestamp),
                                        Some(word_count_of(payload.text_content)),
                                        Some(character_count_of(
                                                 payload.text_content)))}),
          ok |-> TRUE, duplicate |-> FALSE, entry_id |-> Some(NextId(st))]

insert_via_api_swallows(st, e, word_count, character_count, fail) ==
    LET payload == Row(e, isoformat(e.timestamp), None, None)
        response == ApiEndpoint(st, payload, fail)
    IN  [store |-> response.store, ret |-> response.entry_id, raised |-> FALSE,
         via |-> "api", req |-> payload]

\* EntryDB._insert_via_api: the payload carries neither count; a failure
\* status raises, a duplicate flag answers None
insert_via_api(st, e, word_count, character_count, fail) ==
    LET payload == Row(e, isoformat(e.timestamp), None, None)
        response == ApiEndpoint(st, payload, fail)
    IN  IF ~response.ok
        THEN [store |-> response.store, ret |-> None, raised |-> TRUE,
              via |-> "api", req |-> payload]
        ELSE IF response.duplicate
        THEN [store |-> response.store, ret |-> None, raised |-> FALSE,
              via |-> "api", req |-> payload]
        ELSE [store |-> response.store, ret |-> response.entry_id,
              raised |-> FALSE, via |-> "api", req |-> payload]

\* EntryDB.insert_entry
insert_entry(api, st, e, fail) ==
    LET word_count == word_count_of(e.text_content)
        character_count == character_count_of(e.text_content)
    IN  IF api
        THEN insert_via_api(st, e, word_count, character_count, fail)
        ELSE insert_via_db(st, e, word_count, character_count, fail)

entry_exists_never(api, st, eid, fail) ==
    [ret |-> FALSE, raised |-> fail, via |-> "db"]

\* EntryDB.entry_exists: always through self.conn, whatever use_api is
entry_exists(api, st, eid, fail) ==
    IF fail
    THEN [ret |-> FALSE, raised |-> TRUE, via |-> "db"]
    ELSE [ret |-> \E r \in Rows(st) : r.external_id = eid, raised |-> FALSE,
          via |-> "db"]

\* EntryDB.get_latest_external_id: the answers the SELECT ... ORDER BY
\* timestamp DESC LIMIT 1 may give (any row of the latest timestamp), always
\* through self.conn
get_latest_external_id(api, st, source, fail) ==
    LET of_source == {r \in Rows(st) : r.source = source}
        latest == {r \in of_source : \A q \in of_source : q.timestamp <= r.timestamp}
    IN  IF fail
        THEN {[ret |-> None, raised |-> TRUE, via |-> "db"]}
        ELSE IF latest = {}
        THEN {[ret |-> None, raised |-> FALSE, via |-> "db"]}
        ELSE {[ret |-> Some(r.external_id), raised |-> FALSE, via |-> "db"] :
                 r \in latest}

(***************************************************************************)
(* URLs and external ids.  A URL is a sequence of tokens: "https:", "/",   *)
(* the host, the word "documents", digits and letters.  A listing page     *)
(* gives hrefs.                                                            *)
(***************************************************************************)
IsDigit(c) == c \in {"1", "2"}

U_slug == <<"/", "documents", "/", "x">>
U_trail == <<"/", "documents", "/", "1", "/">>
U_empty == <<>>

URLS == {U_slug, U_trail, U_empty}

\* more hrefs: several digits, a path below the number, the pattern twice,
\* doubled trailing slashes, no slash at all
HREFS ==
    URLS \cup { <<"/", "documents", "/", "1", "2">>,
                <<"/", "documents", "/", "1", "/", "x">>,
                <<"/", "documents", "/", "x", "/", "documents", "/", "2">>,
                <<"/", "x", "/", "documents", "/", "2", "/", "/">>,
                <<"/", "documents", "/", "1", "x">>,
                <<"x">> }

AMERICAN_PRESIDENCY_BASE_URL == <<"https:", "/", "/", "host">>

\* urljoin(base, href) for an empty href or one that starts with "/"
urljoin(base, href) == base \o href

\* the url of a listing item: joined to the base url by
\* _scrape_document_list, the href as it is by _scrape_transcript_list
ListedUrl(a, href) ==
    IF a = "app" THEN urljoin(AMERICAN_PRESIDENCY_BASE_URL, href) ELSE href

\* re.search(r"/documents/(\d+)", url): group(1) of the leftmost match, or None
documents_match(url) ==
    LET starts == {i \in 1..(Len(url) - 3) :
                      /\ url[i] = "/" /\ url[i+1] = "documents" /\ url[i+2] = "/"
                      /\ IsDigit(url[i+3])}
    IN  IF starts = {} THEN None
        ELSE LET k == SetMin(starts) + 3
                 ends == {j \in k..Len(url) : \A m \in k..j : IsDigit(url[m])}
             IN  Some(SubSeq(url, k, SetMax(ends)))

\* url.split("/")[-1]
last_segment(url) ==
    LET slashes == {i \in 1..Len(url) : url[i] = "/"}
    IN  IF slashes = {} THEN url ELSE SubSeq(url, SetMax(slashes) + 1, Len(url))

\* url.rstrip("/")
rstrip_slash(url) ==
    LET keep == {i \in 1..Len(url) : url[i] # "/"}
    IN  IF keep = {} THEN <<>> ELSE SubSeq(url, 1, SetMax(keep))

\* the external id derived from the listing url before the detail fetch:
\* scrape_category checks only when the numeric pattern matches,
\* scrape_transcripts always (an empty url never gets here)
pre_fetch_id(a, url) ==
    IF a = "app"
    THEN LET match == documents_match(url)
         IN  IF match # None THEN Some(<<"app_">> \o match[1]) ELSE None
    ELSE Some(<<"rev_">> \o last_segment(rstrip_slash(url)))

detail_id_last_segment(a, url) ==
    (IF a = "app" THEN <<"app_">> ELSE <<"rev_">>) \o last_segment(url)

\* the external id the detail stage stores the item under
detail_id(a, url) ==
    IF a = "app"
    THEN LET match == documents_match(url)
         IN  <<"app_">> \o (IF match # None THEN match[1] ELSE last_segment(url))
    ELSE <<"rev_">> \o last_segment(rstrip_slash(url))

(***************************************************************************)
(* Pages.  The content container of a detail page is a sequence of         *)
(* children, each a string; elem tells a tag from a bare string.  A date   *)
(* string is known by the one strptime format that accepts it.             *)
(***************************************************************************)
PublishedAt == 0 - 1

FRAGS == { <<>>,
           <<[elem |-> TRUE, s |-> <<" ">>]>>,
           <<[elem |-> TRUE, s |-> <<" ", "a">>], [elem |-> FALSE, s |-> <<"a", " ">>]>>,
           <<[elem |-> FALSE, s |-> <<"a">>]>> }

DATES == {"B", "iso", "us", "junk", "empty"}

PAGES == [container : BOOLEAN, frags : FRAGS, date_str : DATES]

FetchFailed == [container |-> FALSE, frags |-> <<>>, date_str |-> "failed"]

SOURCE_NAME(a) ==
    IF a = "app" THEN "speech" ELSE IF a = "rev" THEN "transcript" ELSE "truth_social"

DateFormats(a) == IF a = "app" THEN <<"B", "b", "iso">> ELSE <<"b", "B", "us">>

\* _parse_date: the first format that accepts the string, or None
parse_date(a, date_str) ==
    IF \E i \in 1..Len(DateFormats(a)) : DateFormats(a)[i] = date_str
    THEN Some(PublishedAt) ELSE None

RECURSIVE elem_parts(_)
\* rev: the stripped text of every child that has get_text, the empty ones left out
elem_parts(frags) ==
    IF frags = <<>> THEN <<>>
    ELSE LET t == strip(frags[1].s)
         IN  (IF frags[1].elem /\ t # <<>> THEN <<t>> ELSE <<>>)
                 \o elem_parts(Tail(frags))

\* the text_content extracted from the container
extract_text(a, frags) ==
    IF a = "app"
    THEN get_text(frags, <<"\n">>)
    ELSE LET text_content == join(elem_parts(frags), <<"\n", "\n">>)
         IN  IF text_content = <<>> THEN get_text(frags, <<"\n">>) ELSE text_content

extract_text_raw(a, frags) ==
    IF frags = <<>> THEN <<>> ELSE frags[1].s

Doc(eid, ts, a, text) ==
    [external_id |-> eid, timestamp |-> ts, source |-> SOURCE_NAME(a),
     text_content |-> text]

scrape_document_keeps_empty(a, url, res, now) ==
    IF res = FetchFailed \/ ~res.container
    THEN None
    ELSE LET timestamp == parse_date(a, res.date_str)
         IN  Some(Doc(detail_id(a, url),
                      IF timestamp # None THEN timestamp[1] ELSE now,
                      a, extract_text_raw(a, res.frags)))

\* _scrape_document / _scrape_transcript: None when the fetch fails, the
\* container is missing or the text is empty
scrape_document(a, url, res, now) ==
    IF res = FetchFailed
    THEN None
    ELSE LET timestamp == parse_date(a, res.date_str)
             text_content == extract_text(a, res.frags)
         IN  IF ~res.container THEN None
             ELSE IF text_content = <<>> THEN None
             ELSE Some(Doc(detail_id(a, url),
                           IF timestamp # None THEN timestamp[1] ELSE now,
                           a, text_content))

(***************************************************************************)
(* Truth Social posts: the statuses response is a list of post_data.       *)
(***************************************************************************)
CREATED == {"missing", "iso", "junk"}

POSTS == [id : {None, Some(<<"1">>)}, content : FRAGS, created_at : CREATED]

\* TruthSocialScraper._parse_post: a created_at that fromisoformat rejects
\* raises inside the try, and the post is dropped
parse_post(post_data, now) ==
    LET content == get_text(post_data.content, <<" ">>)
    IN  IF content = <<>> THEN None
        ELSE IF post_data.created_at = "junk" THEN None
        ELSE Some(Doc(<<"truth_">> \o (IF post_data.id # None
                                         THEN post_data.id[1] ELSE <<>>),
                      IF post_data.created_at = "iso" THEN PublishedAt ELSE now,
                      "truth", content))

RECURSIVE parse_posts(_, _)
\* the loop of scrape_recent over the response
parse_posts(data, now) ==
    IF data = <<>> THEN <<>>
    ELSE LET parsed == parse_post(data[1], now)
         IN  (IF parsed # None THEN parsed ELSE <<>>) \o parse_posts(Tail(data), now)


(***************************************************************************)
(* Adapter runs.  Every network fetch and every store call is one step.    *)
(***************************************************************************)
RECURSIVE SeqsUpTo(_, _)
\* the non-empty sequences over S of length at most n
SeqsUpTo(S, n) ==
    IF n = 0 THEN {}
    ELSE LET shorter == SeqsUpTo(S, n - 1)
         IN  {<<x>> : x \in S} \cup shorter \cup
             {Append(q, x) : q \in shorter, x \in S}

NoOutcome == [kind |-> "none", n |-> 0, in |-> "none"]
Returned(n) == [kind |-> "count", n |-> n, in |-> "none"]
Raised(stage) == [kind |-> "raised", n |-> 0, in |-> stage]

\* history record of one listing item (or post): its url, the id checked
\* before the fetch and whether the store held it then, whether the store
\* held the id the item is stored under, whether the detail fetch was issued,
\* what the body was ("failed", "nocontainer", "empty", "ok"), whether the
\* date parsed, the entry built (or None), and the time of the step
Ghost(url, pre, known, stored, fetched, body, dated, built, at) ==
    [url |-> url, pre |-> pre, known |-> known, stored |-> stored,
     fetched |-> fetched, body |-> body, dated |-> dated, built |-> built,
     at |-> at]

BodyOf(a, res) ==
    IF res = FetchFailed THEN "failed"
    ELSE IF ~res.container THEN "nocontainer"
    ELSE IF extract_text(a, res.frags) = <<>> THEN "empty" ELSE "ok"

Categories(a) == IF a = "app" THEN cfg.categories ELSE 1

\* config.MAX_RETRIES
MAX_RETRIES == 3

\* _fetch_page under @retry(stop=stop_after_attempt(MAX_RETRIES)): the
\* request is issued again after each failure, MAX_RETRIES times at most;
\* fails is the number of times in a row the network would fail
fetch_page(fails) ==
    IF fails < MAX_RETRIES
    THEN [attempts |-> fails + 1, ok |-> TRUE]
    ELSE [attempts |-> MAX_RETRIES, ok |-> FALSE]

\* self.client.get(api_url, ...) in scrape_recent: one request
client_get(fails) == [attempts |-> 1, ok |-> fails = 0]

\* history record of one network fetch: which ("list", "detail",
\* "statuses"), the category and page it was issued in, how many entries
\* were collected then, the failures the network had in store, the
\* attempts made, the result, and how many items or entries it gave
Fetch(kind, c, pg, have, fails, f, got) ==
    [kind |-> kind, cat |-> c, page |-> pg, have |-> have, fails |-> fails,
     attempts |-> f.attempts, ok |-> f.ok, got |-> got]

\* the log of a run with one more fetch; a run whose fetches are not looked
\* at keeps none
Logged(p, rec) == IF cfg.trace THEN Append(fetchLog[p], rec) ELSE fetchLog[p]

scrape_document_list_raises(f, listing) ==
    [raised |-> ~f.ok, items |-> IF f.ok THEN listing ELSE <<>>]

\* _scrape_document_list / _scrape_transcript_list: the items of the page,
\* or [] when anything in the try failed
scrape_document_list(f, listing) ==
    [raised |-> FALSE, items |-> IF f.ok THEN listing ELSE <<>>]

cap_never_reached(docs, max_docs) == FALSE

\* if len(documents) >= max_docs: break
cap_reached(docs, max_docs) == Len(docs) >= max_docs

count_saved_always(n, entry_id) == n + 1

\* if entry_id: saved += 1
count_saved(n, entry_id) == IF entry_id # None THEN n + 1 ELSE n

\* self.conn in a store call: the connection is made when there is none; a
\* call that failed may have failed before or after connecting
conn_after(c, fail, connected) == IF fail /\ ~connected THEN c ELSE "open"

\* a run is entered: db = EntryDB(use_api), then the scraper is constructed
\* (which opens its httpx.Client, or raises), then run() begins
BeginRun(p, a, api, via, constructed) ==
    /\ adapter' = [adapter EXCEPT ![p] = a]
    /\ use_api' = [use_api EXCEPT ![p] = api]
    /\ entry' = [entry EXCEPT ![p] = via]
    /\ client' = [client EXCEPT ![p] = IF constructed THEN "open" ELSE "none"]
    /\ conn' = [conn EXCEPT ![p] = "none"]
    /\ pc' = [pc EXCEPT ![p] = IF ~constructed THEN "raised"
                               ELSE IF a = "truth" THEN "statuses" ELSE "list"]
    /\ outcome' = [outcome EXCEPT ![p] = IF constructed THEN NoOutcome
                                         ELSE Raised("construct")]
    /\ cat' = [cat EXCEPT ![p] = 1]
    /\ page' = [page EXCEPT ![p] = 0]
    /\ doc_list' = [doc_list EXCEPT ![p] = <<>>]
    /\ documents' = [documents EXCEPT ![p] = <<>>]
    /\ saveIdx' = [saveIdx EXCEPT ![p] = 1]
    /\ saved' = [saved EXCEPT ![p] = 0]
    /\ total_saved' = [total_saved EXCEPT ![p] = 0]
    /\ item' = [item EXCEPT ![p] = {}]
    /\ insLog' = [insLog EXCEPT ![p] = <<>>]
    /\ fetchLog' = [fetchLog EXCEPT ![p] = <<>>]
    /\ startSize' = [startSize EXCEPT ![p] = Size(store)]

\* the end of a run.  run_* of the orchestrator: finally: scraper.close();
\* db.close(), where scraper is unbound when the construction raised, so
\* that db.close() is not reached.  main(): scraper.close() after run()
\* returned, and finally: db.close()
EndRun(p) ==
    /\ client' = [client EXCEPT ![p] =
          IF @ = "open" /\ (entry[p] = "orchestrator" \/ pc[p] = "done")
          THEN "closed" ELSE @]
    /\ conn' = [conn EXCEPT ![p] =
          IF @ = "open" /\ (entry[p] = "main" \/ client[p] # "none")
          THEN "closed" ELSE @]
    /\ pc' = [pc EXCEPT ![p] = "idle"]

\* a run is started on its own: one adapter through the orchestrator
\* (run_truth_social, ...), or a scraper module's main(), which builds
\* EntryDB() with the direct transport
StartRun(p) ==
    /\ p \in cfg.procs
    /\ opc = "none"
    /\ pc[p] = "idle"
    /\ runsLeft[p] > 0
    /\ \E a \in cfg.adapters, api \in cfg.transports, via \in cfg.entries,
          constructed \in cfg.construct :
          /\ via = "main" => ~api
          /\ BeginRun(p, a, api, via, constructed)
    /\ runsLeft' = [runsLeft EXCEPT ![p] = @ - 1]
    /\ UNCHANGED <<store, clock, cfg, savedIds, call>>
    /\ UNCHANGED orchVars

\* the run started on its own ends
Finish(p) ==
    /\ p \in cfg.procs
    /\ opc = "none"
    /\ pc[p] \in {"done", "raised"}
    /\ EndRun(p)
    /\ UNCHANGED <<store, clock, cfg, use_api, adapter, runsLeft, cat, page,
                   doc_list, documents, saveIdx, saved, total_saved, outcome, item,
                   savedIds, insLog, call, entry, fetchLog, startSize>>
    /\ UNCHANGED orchVars

\* the inner loop moves to the next item, or the outer loop to the next page
Advance(p, rest) ==
    /\ doc_list' = [doc_list EXCEPT ![p] = rest]
    /\ IF rest = <<>>
       THEN /\ page' = [page EXCEPT ![p] = @ + 1]
            /\ pc' = [pc EXCEPT ![p] = "list"]
       ELSE /\ page' = page
            /\ pc' = [pc EXCEPT ![p] = "item"]

\* scrape_category / scrape_transcripts, head of the page loop: the caps,
\* then _scrape_document_list, which answers [] when the fetch fails
ScrapeList(p) ==
    /\ p \in cfg.procs
    /\ pc[p] = "list"
    /\ IF page[p] >= cfg.max_pages \/ cap_reached(documents[p], cfg.max_docs)
       THEN /\ pc' = [pc EXCEPT ![p] = "save"]
            /\ UNCHANGED <<doc_list, fetchLog, outcome>>
       ELSE \E fails \in cfg.fails,
               listing \in {<<>>} \cup SeqsUpTo(cfg.urls, cfg.max_list) :
               LET f == fetch_page(fails)
                   r == scrape_document_list(f, listing)
               IN  /\ fetchLog' = [fetchLog EXCEPT ![p] =
                         Logged(p, Fetch("list", cat[p], page[p], Len(documents[p]),
                                         fails, f, Len(r.items)))]
                   /\ IF r.raised
                      THEN /\ pc' = [pc EXCEPT ![p] = "raised"]
                           /\ outcome' = [outcome EXCEPT ![p] = Raised("list")]
                           /\ doc_list' = doc_list
                      ELSE IF r.items = <<>>
                      THEN /\ pc' = [pc EXCEPT ![p] = "save"]
                           /\ UNCHANGED <<doc_list, outcome>>
                      ELSE /\ pc' = [pc EXCEPT ![p] = "item"]
                           /\ doc_list' = [doc_list EXCEPT ![p] =
                                 [i \in 1..Len(r.items) |->
                                     ListedUrl(adapter[p], r.items[i])]]
                           /\ outcome' = outcome
    /\ saveIdx' = [saveIdx EXCEPT ![p] = 1]
    /\ saved' = [saved EXCEPT ![p] = 0]
    /\ insLog' = [insLog EXCEPT ![p] = <<>>]
    /\ UNCHANGED <<store, clock, cfg, use_api, adapter, runsLeft, cat, page,
                   documents, total_saved, item, savedIds, call, entry, client,
                   conn, startSize>>
    /\ UNCHANGED orchVars

\* one listing item up to its detail fetch: the cap, the empty url (rev),
\* and the known-check through entry_exists, which is outside any try
CheckItem(p) ==
    /\ p \in cfg.procs
    /\ pc[p] = "item"
    /\ LET url == Head(doc_list[p])
           rest == Tail(doc_list[p])
           a == adapter[p]
       IN  IF cap_reached(documents[p], cfg.max_docs)
           THEN /\ doc_list' = [doc_list EXCEPT ![p] = <<>>]
                /\ page' = [page EXCEPT ![p] = @ + 1]
                /\ pc' = [pc EXCEPT ![p] = "list"]
                /\ UNCHANGED <<outcome, item, conn>>
           ELSE IF a = "rev" /\ url = <<>>
           THEN /\ Advance(p, rest)
                /\ UNCHANGED <<outcome, item, conn>>
           ELSE LET pre == pre_fetch_id(a, url)
                    g == Ghost(url, pre,
                               pre # None /\ pre[1] \in StoredIds(store),
                               detail_id(a, url) \in StoredIds(store),
                               FALSE, "none", FALSE, None, clock)
                IN  IF pre = None
                    THEN /\ pc' = [pc EXCEPT ![p] = "fetch"]
                         /\ item' = [item EXCEPT ![p] = {g}]
                         /\ UNCHANGED <<doc_list, page, outcome, conn>>
                    ELSE \E fail \in cfg.faults, connected \in BOOLEAN :
                            LET r == entry_exists(use_api[p], store, pre[1], fail)
                            IN  /\ ~fail => connected
                                /\ conn' = [conn EXCEPT
                                              ![p] = conn_after(@, fail, connected)]
                                /\ item' = [item EXCEPT ![p] = {g}]
                                /\ IF r.raised
                                   THEN /\ pc' = [pc EXCEPT ![p] = "raised"]
                                        /\ outcome' = [outcome EXCEPT
                                                         ![p] = Raised("scrape")]
                                        /\ UNCHANGED <<doc_list, page>>
                                   ELSE IF r.ret
                                   THEN /\ Advance(p, rest)
                                        /\ outcome' = outcome
                                   ELSE /\ pc' = [pc EXCEPT ![p] = "fetch"]
                                        /\ UNCHANGED <<doc_list, page, outcome>>
    /\ UNCHANGED <<store, clock, cfg, use_api, adapter, runsLeft, cat, documents,
                   saveIdx, saved, total_saved, savedIds, insLog, call, entry,
                   client, fetchLog, startSize>>
    /\ UNCHANGED orchVars

\* _scrape_document / _scrape_transcript on the item, and the append
FetchDetail(p) ==
    /\ p \in cfg.procs
    /\ pc[p] = "fetch"
    /\ LET url == Head(doc_list[p])
           a == adapter[p]
       IN  \E fails \in cfg.fails, body \in cfg.pages :
              LET f == fetch_page(fails)
                  res == IF f.ok THEN body ELSE FetchFailed
                  doc == scrape_document(a, url, res, clock)
                  old == CHOOSE g \in item[p] : TRUE
              IN  /\ documents' = [documents EXCEPT
                                     ![p] = IF doc # None THEN @ \o doc ELSE @]
                  /\ item' = [item EXCEPT ![p] =
                        {Ghost(url, old.pre, old.known, old.stored, TRUE,
                               BodyOf(a, res),
                               res # FetchFailed /\ parse_date(a, res.date_str) # None,
                               doc, clock)}]
                  /\ fetchLog' = [fetchLog EXCEPT ![p] =
                        Logged(p, Fetch("detail", cat[p], page[p], Len(documents[p]),
                                        fails, f, Len(doc)))]
                  /\ Advance(p, Tail(doc_list[p]))
    /\ UNCHANGED <<store, clock, cfg, use_api, adapter, runsLeft, cat, saveIdx,
                   saved, total_saved, outcome, savedIds, insLog, call, entry,
                   client, conn, startSize>>
    /\ UNCHANGED orchVars

\* scrape_recent: one request without retry; a failure or a status other
\* than 200 leaves the list empty
ScrapeRecent(p) ==
    /\ p \in cfg.procs
    /\ pc[p] = "statuses"
    /\ \E fails \in cfg.fails, response \in {<<>>} \cup SeqsUpTo(cfg.posts, cfg.max_list) :
          LET f == client_get(fails)
              data == IF f.ok THEN response ELSE <<>>
              posts == parse_posts(data, clock)
          IN  /\ documents' = [documents EXCEPT ![p] = posts]
              /\ item' = [item EXCEPT ![p] =
                    {Ghost(<<>>, None, FALSE, FALSE, FALSE,
                           IF get_text(data[i].content, <<" ">>) # <<>>
                           THEN "ok" ELSE "empty",
                           data[i].created_at = "iso",
                           parse_post(data[i], clock), clock) : i \in 1..Len(data)}]
              /\ fetchLog' = [fetchLog EXCEPT ![p] =
                    Logged(p, Fetch("statuses", cat[p], page[p], 0, fails, f,
                                    Len(posts)))]
    /\ pc' = [pc EXCEPT ![p] = "save"]
    /\ saveIdx' = [saveIdx EXCEPT ![p] = 1]
    /\ saved' = [saved EXCEPT ![p] = 0]
    /\ insLog' = [insLog EXCEPT ![p] = <<>>]
    /\ UNCHANGED <<store, clock, cfg, use_api, adapter, runsLeft, cat, page,
                   doc_list, total_saved, outcome, savedIds, call, entry, client,
                   conn, startSize>>
    /\ UNCHANGED orchVars

\* save_documents / save_transcripts / save_posts, one entry per step, with
\* no try around insert_entry; then run() adds up and takes the next category
SaveItem(p) ==
    /\ p \in cfg.procs
    /\ pc[p] = "save"
    /\ IF saveIdx[p] > Len(documents[p])
       THEN /\ total_saved' = [total_saved EXCEPT ![p] = @ + saved[p]]
            /\ IF cat[p] < Categories(adapter[p])
               THEN /\ cat' = [cat EXCEPT ![p] = @ + 1]
                    /\ page' = [page EXCEPT ![p] = 0]
                    /\ documents' = [documents EXCEPT ![p] = <<>>]
                    /\ pc' = [pc EXCEPT ![p] = "list"]
                    /\ outcome' = outcome
               ELSE /\ pc' = [pc EXCEPT ![p] = "done"]
                    /\ outcome' = [outcome EXCEPT
                                     ![p] = Returned(total_saved[p] + saved[p])]
                    /\ UNCHANGED <<cat, page, documents>>
            /\ UNCHANGED <<store, saveIdx, saved, savedIds, insLog, conn>>
       ELSE \E fail \in cfg.faults, connected \in BOOLEAN :
               LET e == documents[p][saveIdx[p]]
                   r == insert_entry(use_api[p], store, e, fail)
               IN  /\ ~fail => connected
                   /\ use_api[p] => connected
                   /\ conn' = [conn EXCEPT ![p] =
                         IF use_api[p] THEN @ ELSE conn_after(@, fail, connected)]
                   /\ store' = r.store
                   /\ insLog' = [insLog EXCEPT ![p] =
                         Append(@, [external_id |-> e.external_id, ret |-> r.ret,
                                    raised |-> r.raised, fail |-> fail])]
                   /\ IF r.raised
                      THEN /\ pc' = [pc EXCEPT ![p] = "raised"]
                           /\ outcome' = [outcome EXCEPT ![p] = Raised("save")]
                           /\ UNCHANGED <<saveIdx, saved, savedIds>>
                      ELSE /\ saved' = [saved EXCEPT ![p] = count_saved(@, r.ret)]
                           /\ saveIdx' = [saveIdx EXCEPT ![p] = @ + 1]
                           /\ savedIds' = IF r.ret # None
                                          THEN savedIds \cup {e.external_id}
                                          ELSE savedIds
                           /\ UNCHANGED <<pc, outcome>>
                   /\ UNCHANGED <<total_saved, cat, page, documents>>
    /\ UNCHANGED <<clock, cfg, use_api, adapter, runsLeft, doc_list, item, call,
                   entry, client, fetchLog, startSize>>
    /\ UNCHANGED orchVars

InitRunners(n1, n2) ==
    /\ store = EmptyBag
    /\ clock = 0
    /\ use_api = [p \in Procs |-> FALSE]
    /\ adapter = [p \in Procs |-> "app"]
    /\ pc = [p \in Procs |-> "idle"]
    /\ runsLeft = [p \in Procs |-> IF p = 1 THEN n1 ELSE n2]
    /\ cat = [p \in Procs |-> 1]
    /\ page = [p \in Procs |-> 0]
    /\ doc_list = [p \in Procs |-> <<>>]
    /\ documents = [p \in Procs |-> <<>>]
    /\ saveIdx = [p \in Procs |-> 1]
    /\ saved = [p \in Procs |-> 0]
    /\ total_saved = [p \in Procs |-> 0]
    /\ outcome = [p \in Procs |-> NoOutcome]
    /\ item = [p \in Procs |-> {}]
    /\ savedIds = {}
    /\ insLog = [p \in Procs |-> <<>>]
    /\ call = [op |-> "none"]
    /\ entry = [p \in Procs |-> "orchestrator"]
    /\ client = [p \in Procs |-> "none"]
    /\ conn = [p \in Procs |-> "none"]
    /\ fetchLog = [p \in Procs |-> <<>>]
    /\ startSize = [p \in Procs |-> 0]

\* no orchestrator: the runs are started on their own
NoOrchestrator ==
    /\ running = FALSE
    /\ opc = "none"
    /\ jobs = <<>>
    /\ rounds = 0
    /\ signalled = FALSE
    /\ started = <<>>

\* the pages and posts met in the runs: every shape of container, and a
\* date that parses or does not
RunPages == {r \in PAGES : r.date_str \in {"B", "junk"} /\ Len(r.frags) <= 1}

RunPosts == {r \in POSTS : /\ r.created_at \in {"iso", "junk"} /\ r.id # None
                             /\ Len(r.content) <= 1}

\* one runner, run after run, any adapter, either transport, one listing
\* page of one category in each run
Init ==
    /\ InitRunners(MaxRuns, 0)
    /\ NoOrchestrator
    /\ cfg = [procs |-> {1}, adapters |-> {"app", "rev", "truth"},
              transports |-> BOOLEAN, faults |-> BOOLEAN, urls |-> URLS,
              pages |-> RunPages, posts |-> RunPosts,
              max_pages |-> 1, max_docs |-> MaxDocs, categories |-> 1,
              max_list |-> MaxItems, fails |-> {0, MAX_RETRIES},
              entries |-> {"orchestrator"}, construct |-> {TRUE}, trace |-> FALSE]

Next ==
    \/ \E p \in Procs : StartRun(p)
    \/ \E p \in Procs : ScrapeList(p)
    \/ \E p \in Procs : CheckItem(p)
    \/ \E p \in Procs : FetchDetail(p)
    \/ \E p \in Procs : ScrapeRecent(p)
    \/ \E p \in Procs : SaveItem(p)
    \/ \E p \in Procs : Finish(p)

Spec == Init /\ [][Next]_vars


(***************************************************************************)
(* Two runs at once against one store: one listing page each, usable       *)
(* pages, the fetches and store calls of the two interleaved.              *)
(***************************************************************************)
ConcPages == {r \in PAGES : r.container /\ r.date_str = "B" /\ Len(r.frags) = 2}

InitConc ==
    /\ InitRunners(1, 1)
    /\ NoOrchestrator
    /\ cfg = [procs |-> Procs, adapters |-> {"app", "rev"},
              transports |-> BOOLEAN, faults |-> BOOLEAN,
              urls |-> {U_slug, U_trail}, pages |-> ConcPages, posts |-> {},
              max_pages |-> 1, max_docs |-> MaxDocs, categories |-> 1,
              max_list |-> MaxItems, fails |-> {0},
              entries |-> {"orchestrator"}, construct |-> {TRUE}, trace |-> FALSE]

NextConc ==
    \/ \E p \in Procs : StartRun(p)
    \/ \E p \in Procs : ScrapeList(p)
    \/ \E p \in Procs : CheckItem(p)
    \/ \E p \in Procs : FetchDetail(p)
    \/ \E p \in Procs : SaveItem(p)
    \/ \E p \in Procs : Finish(p)

SpecConc == InitConc /\ [][NextConc]_vars

(***************************************************************************)
(* Runs over several listing pages and several categories: one runner,     *)
(* one usable detail page, every count of network failures.                *)
(***************************************************************************)
MaxPages == 2
NumCategories == 2
MaxFails == 4

PagedPages == {r \in PAGES : r.container /\ r.date_str = "B" /\ Len(r.frags) = 2}

PagedPosts == {r \in POSTS : /\ r.created_at = "iso" /\ r.id # None
                               /\ Len(r.content) = 2}

InitPaged ==
    /\ InitRunners(1, 0)
    /\ NoOrchestrator
    /\ cfg = [procs |-> {1}, adapters |-> {"app", "rev", "truth"},
              transports |-> BOOLEAN, faults |-> BOOLEAN,
              urls |-> {U_slug, U_trail}, pages |-> PagedPages,
              posts |-> PagedPosts,
              max_pages |-> MaxPages, max_docs |-> MaxDocs,
              categories |-> NumCategories,
              max_list |-> MaxItems, fails |-> {0, MAX_RETRIES},
              entries |-> {"orchestrator"}, construct |-> {TRUE}, trace |-> TRUE]

SpecPaged == InitPaged /\ [][Next]_vars

(***************************************************************************)
(* The network failing any number of times in a row: one runner, one       *)
(* listing page of one item, no store faults.                              *)
(***************************************************************************)
InitRetry ==
    /\ InitRunners(MaxRuns, 0)
    /\ NoOrchestrator
    /\ cfg = [procs |-> {1}, adapters |-> {"app", "rev", "truth"},
              transports |-> {FALSE}, faults |-> {FALSE},
              urls |-> {U_trail}, pages |-> PagedPages, posts |-> PagedPosts,
              max_pages |-> 1, max_docs |-> MaxDocs, categories |-> 1,
              max_list |-> 1, fails |-> 0..MaxFails,
              entries |-> {"orchestrator"}, construct |-> {TRUE}, trace |-> TRUE]

SpecRetry == InitRetry /\ [][Next]_vars

(***************************************************************************)
(* The orchestrator (orchestrator.py), after its construction: run_all_once *)
(* or start_scheduled, the adapter runs done by runner 1; and, with no      *)
(* orchestrator, the main() of a scraper module run again and again.  A     *)
(* shutdown signal may be delivered at any point of the scheduled mode.     *)
(***************************************************************************)
MaxRounds == 1

\* run_all_once: the adapters in the order of its three calls
run_all_once == <<"truth", "app", "rev">>

\* what schedule.run_pending() may find due
DueJobs == {<<>>, <<"truth">>, <<"app", "rev">>, <<"truth", "app", "rev">>}

run_with_logging_propagates(result) ==
    IF result = "raised" THEN "propagate" ELSE "continue"

\* _run_with_logging: try: count = func() ... except Exception: print(...)
run_with_logging(result) == "continue"

InitOrch ==
    /\ \E mode \in {"once", "scheduled", "main"}, api \in BOOLEAN :
          /\ InitRunners(IF mode = "main" THEN MaxRuns ELSE 0, 0)
          /\ opc = (IF mode = "main" THEN "none" ELSE mode)
          /\ cfg = [procs |-> {1}, adapters |-> {"app", "rev", "truth"},
                    transports |-> {api /\ mode # "main"}, faults |-> BOOLEAN,
                    urls |-> {U_trail}, pages |-> PagedPages, posts |-> PagedPosts,
                    max_pages |-> 1, max_docs |-> MaxDocs, categories |-> 1,
                    max_list |-> 1, fails |-> {0, MAX_RETRIES},
                    entries |-> {IF mode = "main" THEN "main" ELSE "orchestrator"},
                    construct |-> BOOLEAN, trace |-> FALSE]
    /\ running = FALSE
    /\ jobs = <<>>
    /\ rounds = MaxRounds
    /\ signalled = FALSE
    /\ started = <<>>

\* run_all_once is entered: from main() with --once, or from start_scheduled
\* after the three jobs were registered
RunAllOnce ==
    /\ opc \in {"once", "scheduled"}
    /\ opc' = (IF opc = "once" THEN "once_run" ELSE "startup")
    /\ jobs' = run_all_once
    /\ UNCHANGED <<store, clock, cfg, use_api, savedIds, call, running, rounds,
                   signalled, started>>
    /\ UNCHANGED runVars

\* _run_with_logging calls run_truth_social / run_american_presidency /
\* run_rev_transcripts: EntryDB(use_api=self.use_api), the scraper, run()
StartJob ==
    /\ opc \in {"once_run", "startup", "pending"}
    /\ jobs # <<>>
    /\ pc[1] = "idle"
    /\ \E api \in cfg.transports, constructed \in cfg.construct :
          BeginRun(1, Head(jobs), api, "orchestrator", constructed)
    /\ started' = Append(started, [name |-> Head(jobs), after_signal |-> signalled,
                                   result |-> "running"])
    /\ UNCHANGED <<store, clock, cfg, runsLeft, savedIds, call, running, opc, jobs,
                   rounds, signalled>>

\* the run is over: the finally block of run_*, then _run_with_logging
\* prints the count or catches the exception
JobReturns ==
    /\ opc \in {"once_run", "startup", "pending"}
    /\ jobs # <<>>
    /\ pc[1] \in {"done", "raised"}
    /\ EndRun(1)
    /\ LET result == IF pc[1] = "done" THEN "count" ELSE "raised"
       IN  /\ started' = [started EXCEPT ![Len(started)].result = result]
           /\ IF run_with_logging(result) = "continue"
              THEN /\ jobs' = Tail(jobs)
                   /\ opc' = opc
              ELSE /\ jobs' = <<>>
                   /\ opc' = "crashed"
    /\ UNCHANGED <<store, clock, cfg, use_api, adapter, runsLeft, cat, page,
                   doc_list, documents, saveIdx, saved, total_saved, outcome, item,
                   savedIds, insLog, call, entry, fetchLog, startSize, running,
                   rounds, signalled>>

\* the last call of the batch has returned: run_all_once returns (to main(),
\* or into start_scheduled), run_pending returns into the loop
BatchDone ==
    /\ opc \in {"once_run", "startup", "pending"}
    /\ jobs = <<>>
    /\ opc' = (IF opc = "once_run" THEN "returned"
               ELSE IF opc = "startup" THEN "set_running" ELSE "sleep")
    /\ UNCHANGED <<store, clock, cfg, use_api, savedIds, call, running, jobs, rounds,
                   signalled, started>>
    /\ UNCHANGED runVars

\* self.running = True
SetRunning ==
    /\ opc = "set_running"
    /\ running' = TRUE
    /\ opc' = "loop"
    /\ UNCHANGED <<store, clock, cfg, use_api, savedIds, call, jobs, rounds,
                   signalled, started>>
    /\ UNCHANGED runVars

\* while self.running: schedule.run_pending() finds the due jobs
LoopCheck ==
    /\ opc = "loop"
    /\ IF running
       THEN \E due \in (IF rounds > 0 THEN DueJobs ELSE {<<>>}) :
               /\ jobs' = due
               /\ rounds' = (IF due # <<>> THEN rounds - 1 ELSE rounds)
               /\ opc' = "pending"
       ELSE /\ opc' = "stopped"
            /\ UNCHANGED <<jobs, rounds>>
    /\ UNCHANGED <<store, clock, cfg, use_api, savedIds, call, running, signalled,
                   started>>
    /\ UNCHANGED runVars

\* time.sleep(1)
Sleep ==
    /\ opc = "sleep"
    /\ opc' = "loop"
    /\ UNCHANGED <<store, clock, cfg, use_api, savedIds, call, running, jobs, rounds,
                   signalled, started>>
    /\ UNCHANGED runVars

\* _handle_shutdown: SIGINT or SIGTERM is delivered, at any point
Signal ==
    /\ opc \in {"scheduled", "startup", "set_running", "loop", "pending", "sleep"}
    /\ running' = FALSE
    /\ signalled' = TRUE
    /\ UNCHANGED <<store, clock, cfg, use_api, savedIds, call, opc, jobs, rounds,
                   started>>
    /\ UNCHANGED runVars

\* the steps the one thread of the process takes
Progress ==
    \/ RunAllOnce
    \/ StartJob
    \/ JobReturns
    \/ BatchDone
    \/ SetRunning
    \/ LoopCheck
    \/ Sleep
    \/ StartRun(1)
    \/ ScrapeList(1)
    \/ CheckItem(1)
    \/ FetchDetail(1)
    \/ ScrapeRecent(1)
    \/ SaveItem(1)
    \/ Finish(1)

NextOrch == Progress \/ Signal

SpecOrch == InitOrch /\ [][NextOrch]_vars /\ WF_vars(Progress)

(***************************************************************************)
(* Calls made directly on one EntryDB, built with either use_api.          *)
(***************************************************************************)
TEXTS == { <<>>, <<"a">>, <<" ", "a", "\n", "a", " ">> }

ENTRIES == [external_id : {<<"app_", "1">>, <<"rev_", "x">>},
            timestamp : {PublishedAt, 0},
            source : {"speech"},
            text_content : TEXTS]

InitStore ==
    /\ InitRunners(0, 0)
    /\ NoOrchestrator
    /\ cfg = [procs |-> {}, adapters |-> {}, transports |-> {}, faults |-> BOOLEAN,
              urls |-> {}, pages |-> {}, posts |-> {},
              max_pages |-> 0, max_docs |-> 0, categories |-> 0,
              max_list |-> 0, fails |-> {}, entries |-> {}, construct |-> {}, trace |-> FALSE]

\* EntryDB(use_api)
Construct ==
    /\ call.op = "none"
    /\ \E api \in BOOLEAN :
          /\ use_api' = [use_api EXCEPT ![1] = api]
          /\ call' = [op |-> "init"]
    /\ UNCHANGED <<store, clock, cfg, savedIds>>
    /\ UNCHANGED runVars
    /\ UNCHANGED orchVars

\* db.insert_entry(...)
DirectInsert ==
    /\ call.op # "none"
    /\ \E e \in ENTRIES, fail \in cfg.faults :
          LET r == insert_entry(use_api[1], store, e, fail)
          IN  /\ store' = r.store
              /\ call' = [op |-> "insert", external_id |-> e.external_id,
                          fail |-> fail, existed |-> e.external_id \in StoredIds(store),
                          before |-> store, ret |-> r.ret, raised |-> r.raised,
                          via |-> r.via, req |-> r.req]
    /\ UNCHANGED <<clock, cfg, use_api, savedIds>>
    /\ UNCHANGED runVars
    /\ UNCHANGED orchVars

\* db.entry_exists(external_id)
DirectExists ==
    /\ call.op # "none"
    /\ \E e \in ENTRIES, fail \in cfg.faults :
          LET r == entry_exists(use_api[1], store, e.external_id, fail)
          IN  call' = [op |-> "exists", external_id |-> e.external_id,
                       fail |-> fail, existed |-> e.external_id \in StoredIds(store),
                       before |-> store, ret |-> r.ret, raised |-> r.raised,
                       via |-> r.via, req |-> None]
    /\ UNCHANGED <<store, clock, cfg, use_api, savedIds>>
    /\ UNCHANGED runVars
    /\ UNCHANGED orchVars

\* db.get_latest_external_id(source)
DirectLatest ==
    /\ call.op # "none"
    /\ \E source \in {"speech", "transcript"}, fail \in cfg.faults :
          \E r \in get_latest_external_id(use_api[1], store, source, fail) :
             call' = [op |-> "latest", external_id |-> <<source>>, fail |-> fail,
                      existed |-> \E q \in Rows(store) : q.source = source,
                      before |-> store, ret |-> r.ret, raised |-> r.raised,
                      via |-> r.via, req |-> None]
    /\ UNCHANGED <<store, clock, cfg, use_api, savedIds>>
    /\ UNCHANGED runVars
    /\ UNCHANGED orchVars

NextStore == Construct \/ DirectInsert \/ DirectExists \/ DirectLatest

SpecStore == InitStore /\ [][NextStore]_vars

(***************************************************************************)
(* The detail stage alone: any page or post, at any time.                  *)
(***************************************************************************)
InitParse ==
    /\ InitRunners(0, 0)
    /\ NoOrchestrator
    /\ cfg = [procs |-> {}, adapters |-> {"app", "rev", "truth"}, transports |-> {},
              faults |-> {}, urls |-> URLS, pages |-> PAGES, posts |-> POSTS,
              max_pages |-> 0, max_docs |-> 0, categories |-> 0,
              max_list |-> 0, fails |-> {}, entries |-> {}, construct |-> {}, trace |-> FALSE]

\* time passes
Tick ==
    /\ clock < MaxClock
    /\ clock' = clock + 1
    /\ UNCHANGED <<store, cfg, use_api, savedIds, call>>
    /\ UNCHANGED runVars
    /\ UNCHANGED orchVars

\* _scrape_document(url) / _scrape_transcript(url) on a page
ParseDetail ==
    /\ \E a \in cfg.adapters \ {"truth"}, url \in cfg.urls,
          res \in {FetchFailed} \cup cfg.pages :
          /\ adapter' = [adapter EXCEPT ![1] = a]
          /\ item' = [item EXCEPT ![1] =
                {Ghost(ListedUrl(a, url), None, FALSE, FALSE, TRUE, BodyOf(a, res),
                       res # FetchFailed /\ parse_date(a, res.date_str) # None,
                       scrape_document(a, ListedUrl(a, url), res, clock), clock)}]
    /\ UNCHANGED <<store, clock, cfg, use_api, pc, runsLeft, cat, page, doc_list,
                   documents, saveIdx, saved, total_saved, outcome, savedIds,
                   insLog, call, entry, client, conn, fetchLog, startSize>>
    /\ UNCHANGED orchVars

\* _parse_post(post_data)
ParsePost ==
    /\ \E post_data \in cfg.posts :
          /\ adapter' = [adapter EXCEPT ![1] = "truth"]
          /\ item' = [item EXCEPT ![1] =
                {Ghost(<<>>, None, FALSE, FALSE, FALSE,
                       IF get_text(post_data.content, <<" ">>) # <<>>
                       THEN "ok" ELSE "empty",
                       post_data.created_at = "iso",
                       parse_post(post_data, clock), clock)}]
    /\ UNCHANGED <<store, clock, cfg, use_api, pc, runsLeft, cat, page, doc_list,
                   documents, saveIdx, saved, total_saved, outcome, savedIds,
                   insLog, call, entry, client, conn, fetchLog, startSize>>
    /\ UNCHANGED orchVars

NextParse == Tick \/ ParseDetail \/ ParsePost

SpecParse == InitParse /\ [][NextParse]_vars


(***************************************************************************)
(* Properties.                                                             *)
(***************************************************************************)

\* C1: absent a transport fault, insert_entry does not raise; for an
\* external_id already stored it returns None and leaves the store as it
\* was, for one not stored it returns an id and adds exactly one row.
C1_IdempotentInsert ==
    (call.op = "insert" /\ ~call.fail) =>
        /\ ~call.raised
        /\ IF call.existed
           THEN call.ret = None /\ store = call.before
           ELSE /\ call.ret # None
                /\ Size(store) = Size(call.before) + 1
                /\ \E r \in RowsOf(store, call.external_id) :
                      store = call.before (+) SetToBag({r})

\* a second insert of a stored external_id, with another text
C1_DuplicateWithOtherPayload ==
    /\ call.op = "insert" /\ ~call.fail /\ call.existed
    /\ \E r \in RowsOf(store, call.external_id) :
          r.text_content # call.req.text_content

\* C2: no two stored rows share an external_id, and the store holds as
\* many rows as there are distinct external ids for which insert_entry
\* returned an id.
C2_UniqueExternalIds ==
    /\ \A r \in Rows(store) : CopiesIn(r, store) = 1
    /\ \A r1, r2 \in Rows(store) : r1.external_id = r2.external_id => r1 = r2
    /\ Size(store) = Cardinality(savedIds)

\* a later run collected an item again and the store answered duplicate
C2_RelistedItemAnsweredDuplicate ==
    \E p \in Procs :
        /\ runsLeft[p] < MaxRuns - 1
        /\ pc[p] = "done"
        /\ Size(store) >= 2
        /\ \E i \in 1..Len(insLog[p]) :
              insLog[p][i].ret = None /\ ~insLog[p][i].raised

LoggedCalls == UNION {{<<p, i>> : i \in 1..Len(insLog[p])} : p \in Procs}

CallsFor(eid) ==
    {c \in LoggedCalls : /\ insLog[c[1]][c[2]].external_id = eid
                         /\ ~insLog[c[1]][c[2]].fail}

\* C3: of the insert_entry calls the two concurrent runs make for one
\* external_id (transport faults aside), exactly one returns an id, the
\* others return None, none raises, and the store ends with one row for it.
C3_ConcurrentInsertOnce ==
    \A eid \in {insLog[c[1]][c[2]].external_id : c \in LoggedCalls} :
        CallsFor(eid) # {} =>
            /\ Cardinality({c \in CallsFor(eid) :
                               insLog[c[1]][c[2]].ret # None}) = 1
            /\ \A c \in CallsFor(eid) : ~insLog[c[1]][c[2]].raised
            /\ Cardinality(RowsOf(store, eid)) = 1
            /\ \A r \in RowsOf(store, eid) : CopiesIn(r, store) = 1

\* both runs passed the known-check for one external_id while the store
\* did not hold it, fetched, and both inserted it
C3_BothPassedCheckThenInserted ==
    \E eid \in {insLog[c[1]][c[2]].external_id : c \in LoggedCalls} :
        \A p \in Procs :
            /\ \E g \in item[p] : g.pre = Some(eid) /\ ~g.known /\ g.fetched
            /\ \E c \in CallsFor(eid) : c[1] = p

\* C4 as claimed: no detail fetch is issued for an item whose stored-under
\* external_id was in the store when the item was reached.
C4_NoFetchForStoredId ==
    \A p \in Procs : \A g \in item[p] : g.fetched => ~g.stored

\* C4, amended: no detail fetch is issued for an item whose external_id as
\* derived from the listing url (American Presidency: only when the url
\* matches /documents/<digits>; Rev: any non-empty url) was in the store when
\* the item was reached.
C4_NoFetchForKnownListingId ==
    \A p \in Procs : \A g \in item[p] : g.fetched => ~g.known

\* an item whose listing id the store held was skipped without a fetch
C4_KnownItemSkipped ==
    \E p \in Procs :
        /\ pc[p] \in {"item", "list"}
        /\ \E g \in item[p] : g.pre # None /\ g.known /\ ~g.fetched

\* C5: after insert_entry raised for an item of the batch that is not the
\* last, the save goes on with the later items (the run is not stopped).
C5_SaveContinuesAfterFault ==
    \A p \in Procs :
        (\E i \in 1..Len(insLog[p]) :
            insLog[p][i].raised /\ i < Len(documents[p]))
        => pc[p] # "raised"

\* C6: no failure met while handling one listed item (the known-check
\* included) stops the run during scraping.
C6_ItemFailureSkipsItemOnly ==
    \A p \in Procs : ~(pc[p] = "raised" /\ outcome[p].in = "scrape")

\* C7: an item with a non-empty body whose date is missing or does not
\* parse is built into an entry whose timestamp is the time of building.
C7_UndatedItemStillBuilt ==
    \A g \in item[1] :
        (g.body = "ok" /\ ~g.dated) =>
            (g.built # None /\ g.built[1].timestamp = g.at)

\* C8: no stored row and no collected entry has a text_content that is
\* empty or only whitespace.
C8_NoEmptyTextStored ==
    /\ \A r \in Rows(store) : strip(r.text_content) # <<>>
    /\ \A p \in Procs : \A i \in 1..Len(documents[p]) :
          strip(documents[p][i].text_content) # <<>>

\* a page whose container held only whitespace was dropped, with rows stored
C8_EmptyBodyDropped ==
    /\ Size(store) > 0
    /\ \E p \in Procs : \E g \in item[p] :
          g.fetched /\ g.body = "empty" /\ g.built = None

\* C9: what insert_entry hands to the store carries the word_count and the
\* character_count of the text_content it hands over.
C9_CountsHandedToStore ==
    call.op = "insert" =>
        /\ call.req.word_count = Some(word_count_of(call.req.text_content))
        /\ call.req.character_count =
               Some(character_count_of(call.req.text_content))

\* C10: every call on an EntryDB goes through the transport selected at
\* construction.
C10_SelectedTransportOnly ==
    call.op \in {"insert", "exists"} =>
        call.via = (IF use_api[1] THEN "api" ELSE "db")

\* C11: insert_entry raises exactly when the transport fails, and then the
\* store is as before; it returns an id exactly when the call added a row;
\* it returns None without raising exactly when the transport worked and a
\* row with that external_id was already stored.  On both transports.
C11_ThreeOutcomesDistinct ==
    call.op = "insert" =>
        /\ call.raised <=> call.fail
        /\ call.raised => (call.ret = None /\ store = call.before)
        /\ (call.ret # None) <=> (Size(store) = Size(call.before) + 1)
        /\ (call.ret = None /\ ~call.raised) <=> (call.existed /\ ~call.fail)
        /\ (call.ret = None) => store = call.before

\* the remote endpoint answered a failure status for a new external_id and
\* insert_entry raised
C11_ApiFailureRaised ==
    /\ call.op = "insert" /\ call.via = "api"
    /\ call.fail /\ call.raised /\ ~call.existed
    /\ Size(store) > 0

\* C18: in every step every stored row stays stored, as it was and as often
\* as it was; a step that is an entry_exists or a get_latest_external_id
\* call leaves the store as it is.
C18_StoreOnlyGrows ==
    [][/\ \A r \in Rows(store) : CopiesIn(r, store') >= CopiesIn(r, store)
       /\ call'.op \in {"exists", "latest"} => store' = store]_vars

\* after inserts, one of them of a stored external_id with another text,
\* get_latest_external_id answered an id
C18_LatestReadAfterInserts ==
    /\ call.op = "latest" /\ call.ret # None /\ ~call.raised
    /\ Size(store) >= 2
    /\ \E r \in Rows(store) : r.text_content = <<"a">>
    /\ \E r \in Rows(store) : r.timestamp = 0

\* C19: for every listing url for which the pre-fetch stage derives an
\* external_id, the detail stage derives the same one; every item handled in
\* a run that was checked carries that id when built, and an item skipped as
\* known had its detail-stage external_id in the store.
C19_SameIdBeforeAndAtDetail ==
    /\ \A a \in {"app", "rev"}, href \in HREFS :
          LET url == ListedUrl(a, href)
              pre == pre_fetch_id(a, url)
          IN  (pre # None /\ ~(a = "rev" /\ url = <<>>)) => pre[1] = detail_id(a, url)
    /\ \A p \in Procs : adapter[p] # "truth" =>
          \A g \in item[p] :
             /\ g.pre # None => g.pre[1] = detail_id(adapter[p], g.url)
             /\ (g.pre # None /\ g.built # None) => g.built[1].external_id = g.pre[1]
             /\ (g.known /\ ~g.fetched) => g.stored

\* a Rev item listed with a trailing slash was skipped as known, its
\* detail-stage id being stored
C19_SkippedItemWasStored ==
    \E p \in Procs :
        /\ adapter[p] = "rev"
        /\ \E g \in item[p] :
              /\ g.url = U_trail /\ g.known /\ ~g.fetched /\ g.stored
              /\ g.pre = Some(<<"rev_", "1">>)

\* C14: when run() has returned, the number it returned is the number of
\* rows the store gained since the run began (no one else writing).
C14_RunReturnsRowsAdded ==
    \A p \in Procs :
        (pc[p] = "done" /\ outcome[p].kind = "count") =>
            outcome[p].n = Size(store) - startSize[p]

\* an American Presidency run returned the sum of two categories, the store
\* having answered duplicate in the second
C14_TwoCategoriesWithDuplicate ==
    \E p \in Procs :
        /\ pc[p] = "done" /\ adapter[p] = "app" /\ cat[p] = 2
        /\ total_saved[p] > saved[p] /\ saved[p] >= 1
        /\ \E i \in 1..Len(insLog[p]) : insLog[p][i].ret = None /\ ~insLog[p][i].raised

ListFetches(p) == {i \in 1..Len(fetchLog[p]) : fetchLog[p][i].kind = "list"}

\* C15 as claimed: in a run at most P listing pages are fetched, at most M
\* entries are collected, and no fetch is issued once M are collected.
C15_CapsBoundTheRun ==
    \A p \in Procs :
        /\ Cardinality(ListFetches(p)) <= cfg.max_pages
        /\ Len(documents[p]) <= cfg.max_docs
        /\ \A i \in 1..Len(fetchLog[p]) : fetchLog[p][i].have < cfg.max_docs

\* C15, amended: in each category (or search) of an American Presidency or
\* Rev run at most P listing pages are fetched, at most M entries are
\* collected and no listing or detail fetch is issued once M are collected;
\* a Truth Social run issues one statuses request; so a run over k
\* categories with at most L items a page issues at most k*P*(1+L) fetches.
C15_CapsBoundEachCategory ==
    \A p \in Procs :
        /\ \A c \in 1..NumCategories :
              Cardinality({i \in ListFetches(p) : fetchLog[p][i].cat = c})
                  <= cfg.max_pages
        /\ adapter[p] # "truth" =>
              /\ Len(documents[p]) <= cfg.max_docs
              /\ \A i \in 1..Len(fetchLog[p]) : fetchLog[p][i].have < cfg.max_docs
        /\ adapter[p] = "truth" => Len(fetchLog[p]) <= 1
        /\ Len(fetchLog[p]) <=
              Categories(adapter[p]) * cfg.max_pages * (1 + cfg.max_list)

\* an American Presidency run fetched P listing pages in its first category
\* and went on to the second, where it collected M entries
C15_BothCapsMet ==
    \E p \in Procs :
        /\ adapter[p] = "app" /\ cat[p] = 2
        /\ Cardinality({i \in ListFetches(p) : fetchLog[p][i].cat = 1}) = cfg.max_pages
        /\ Len(documents[p]) = cfg.max_docs
        /\ pc[p] = "save"

\* the entries built in category c, by the log
BuiltIn(p, c) ==
    {i \in 1..Len(fetchLog[p]) : /\ fetchLog[p][i].kind = "detail"
                                  /\ fetchLog[p][i].cat = c
                                  /\ fetchLog[p][i].got = 1}

\* C16: after a listing fetch that failed or gave no items nothing more is
\* fetched in that category; no exception leaves through the listing; when
\* the category ends so, the entries built in it are the ones handed to the
\* save, and a run that returned has submitted them all; an American
\* Presidency run that returned has listed every category.
C16_EmptyListingEndsCategory ==
    \A p \in Procs :
        /\ \A i \in ListFetches(p) :
              fetchLog[p][i].got = 0 =>
                 \A j \in 1..Len(fetchLog[p]) :
                    j > i => fetchLog[p][j].cat # fetchLog[p][i].cat
        /\ ~(outcome[p].kind = "raised" /\ outcome[p].in = "list")
        /\ (/\ pc[p] \in {"save", "done"} /\ adapter[p] # "truth"
            /\ fetchLog[p] # <<>>
            /\ fetchLog[p][Len(fetchLog[p])].kind = "list"
            /\ fetchLog[p][Len(fetchLog[p])].got = 0)
           => Len(documents[p]) = Cardinality(BuiltIn(p, cat[p]))
        /\ pc[p] = "done" => saveIdx[p] = Len(documents[p]) + 1
        /\ (pc[p] = "done" /\ adapter[p] = "app") =>
              \A c \in 1..cfg.categories :
                 \E i \in ListFetches(p) : fetchLog[p][i].cat = c

\* the second listing page of the first category failed after an entry was
\* collected; the run saved it, went through the second category and
\* returned
C16_SecondPageFailedRunReturned ==
    \E p \in Procs :
        /\ pc[p] = "done" /\ adapter[p] = "app" /\ outcome[p].n >= 1
        /\ \E i \in ListFetches(p) :
              /\ ~fetchLog[p][i].ok /\ fetchLog[p][i].cat = 1
              /\ fetchLog[p][i].page = 1 /\ fetchLog[p][i].have >= 1

\* C17: every network fetch is attempted again after each failure until it
\* succeeds or MAX_RETRIES attempts are made, never more, and fails only
\* when all of them failed.
C17_EveryFetchRetriedToCap ==
    \A p \in Procs : \A i \in 1..Len(fetchLog[p]) :
        LET r == fetchLog[p][i]
        IN  /\ r.attempts <= MAX_RETRIES
            /\ r.attempts = (IF r.fails < MAX_RETRIES THEN r.fails + 1
                             ELSE MAX_RETRIES)
            /\ r.ok <=> r.fails < MAX_RETRIES

\* C12: no adapter run is started once a shutdown signal was delivered; a
\* run in flight when it was delivered completes; and the scheduling loop
\* then exits.
C12_SignalStopsScheduling ==
    /\ [](\A i \in 1..Len(started) : ~started[i].after_signal)
    /\ ((signalled /\ pc[1] # "idle") ~> pc[1] = "idle")
    /\ (signalled ~> opc = "stopped")

\* C13: a run that has ended, however it ended, has left neither its HTTP
\* client nor its database connection open.
C13_RunEndsWithResourcesClosed ==
    \A p \in Procs : pc[p] = "idle" => (client[p] # "open" /\ conn[p] # "open")

\* C20: run_all_once is never left by an exception; the runs it has started
\* are, in order, Truth Social, American Presidency, Rev Transcripts; when
\* it has returned, all three were started, each once.
C20_RunAllOnceStartsAllInOrder ==
    /\ opc # "crashed"
    /\ opc \in {"once_run", "startup", "returned", "set_running"} =>
          /\ Len(started) <= Len(run_all_once)
          /\ \A i \in 1..Len(started) : started[i].name = run_all_once[i]
    /\ opc \in {"returned", "set_running"} => Len(started) = Len(run_all_once)

\* run_all_once returned although the first two runs raised, the second in
\* its construction
C20_ReturnedAfterRaisingRuns ==
    /\ opc = "returned"
    /\ started[1].result = "raised" /\ started[2].result = "raised"
    /\ started[3].result = "count"
    /\ client[1] = "closed"

====
